---- MODULE Spec2Model ----
(***************************************************************************)
(* Model of models/store.js: the Store schema's pre('save') slug hook, the *)
(* getTagsList and getTopStores aggregations, and the autopopulate hook    *)
(* on find / findOne.                                                      *)
(*                                                                         *)
(* Strings are sequences of one-character strings, so that lowercasing,    *)
(* the slug transform, the `-N` suffix and the RegExp match are computed   *)
(* character by character.                                                 *)
(***************************************************************************)
EXTENDS Integers, Sequences, FiniteSets, TLC

VARIABLES
    stores,      \* the Store collection: sequence of documents, _id = index
    reviews,     \* the Review collection: sequence of [store, rating]
    pc,          \* per save() call: position of the call
    sv,          \* per save() call: the document being saved and the hook's locals
    prev,        \* history: the Store of the last committed save that changed a
                 \* name, and whether the collection its lookup read was clean
    tagsCall,    \* <<result>> of an outstanding getTagsList(), or <<>>
    topCall,     \* <<result>> of an outstanding getTopStores(), or <<>>
    saves,       \* save() calls begun so far
    query        \* <<query>>: an outstanding find / findOne, or <<>>

vars == <<stores, reviews, pc, sv, prev, tagsCall, topCall, query, saves>>

None == "none"

-----------------------------------------------------------------------------
(* Bounds                                                                  *)

MaxStores == 2       \* Store documents the saves may create
MaxRaceSaves == 3    \* save() calls begun where saves run concurrently

\* the save() calls that may be in flight together
Procs == {"s1", "s2"}

-----------------------------------------------------------------------------
(* Strings                                                                 *)

ToLower(c) ==
    CASE c = "A" -> "a"
      [] c = "B" -> "b"
      [] OTHER -> c

IsDigit(c) == c \in {"0", "1", "2", "3", "4", "5", "6", "7", "8", "9"}

IsAlnum(c) == IsDigit(c) \/ c \in {"a", "b", "A", "B"}

LowerCase(s) == [i \in 1 .. Len(s) |-> ToLower(s[i])]

DigitChar(d) == SubSeq(<<"0", "1", "2", "3", "4", "5", "6", "7", "8", "9">>, d + 1, d + 1)

RECURSIVE NumStr(_)
\* `${n}` for a non-negative integer
NumStr(n) == IF n < 10 THEN DigitChar(n) ELSE NumStr(n \div 10) \o DigitChar(n % 10)

RECURSIVE Dashed(_, _)
\* every run of non-alphanumeric characters becomes one dash
Dashed(s, inRun) ==
    IF s = <<>> THEN <<>>
    ELSE IF IsAlnum(Head(s)) THEN <<Head(s)>> \o Dashed(Tail(s), FALSE)
    ELSE IF inRun THEN Dashed(Tail(s), TRUE)
    ELSE <<"-">> \o Dashed(Tail(s), TRUE)

RECURSIVE StripLeft(_)
StripLeft(s) == IF s # <<>> /\ Head(s) = "-" THEN StripLeft(Tail(s)) ELSE s

RECURSIVE StripRight(_)
StripRight(s) ==
    IF s # <<>> /\ s[Len(s)] = "-" THEN StripRight(SubSeq(s, 1, Len(s) - 1)) ELSE s

\* slug(name) of the `slugs` package: lowercase, non-alphanumeric runs to one
\* dash, no leading or trailing dash
Slugify(name) == StripRight(StripLeft(Dashed(LowerCase(name), FALSE)))

AllDigits(s) == \A i \in 1 .. Len(s) : IsDigit(s[i])

\* new RegExp(`^(${base})((-[0-9]*$)?)$`, 'i').test(s)
SlugRegExTest(base, s) ==
    \/ LowerCase(s) = LowerCase(base)
    \/ /\ Len(s) > Len(base)
       /\ LowerCase(SubSeq(s, 1, Len(base))) = LowerCase(base)
       /\ s[Len(base) + 1] = "-"
       /\ AllDigits(SubSeq(s, Len(base) + 2, Len(s)))

-----------------------------------------------------------------------------
(* Inputs                                                                  *)

\* store names, already trimmed and non-empty as the schema's validation
\* leaves them: "a", "A", "a 2", "!"
Names == {<<"a">>, <<"A">>, <<"a", " ", "2">>, <<"!">>}

\* values of `tags`, the field a save changes when it leaves `name` alone
TagLists == {<<>>, <<"t">>}

\* what a rejected find() rejects with
StorageErrors == {"timeout", "disconnected"}

-----------------------------------------------------------------------------
(* Store.find({ slug: slugRegEx }): the documents whose slug matches       *)

FindBySlug(base) == {i \in DOMAIN stores : SlugRegExTest(base, stores[i].slug)}

\* faulty variant: the suffix is the match count itself
MutSuffixedSlugCount(base, n) == base \o <<"-">> \o NumStr(n)

\* `${this.slug}-${storesWithSlug.length + 1}`
SuffixedSlug(base, n) == base \o <<"-">> \o NumStr(n + 1)

\* lines 71-73
SlugFor(base, n) == IF n # 0 THEN SuffixedSlug(base, n) ELSE base

\* faulty variant: the hook never takes the early return
MutIsModifiedAlways(s) == TRUE

\* this.isModified('name'): a new document's name is always set; a loaded
\* document's name is modified when it differs from the loaded value
IsModifiedName(s) == s.isNew \/ s.doc.name # s.orig.name

Unset == <<"?">>     \* stands for a field that has no value yet

NoDoc == [name |-> Unset, slug |-> Unset, tags |-> <<>>]

\* history: no Store's slug is `base` or `base` with a numeric suffix
CleanFor(base) ==
    \A i \in DOMAIN stores :
        LET s == stores[i].slug
        IN  ~ \/ s = base
              \/ /\ Len(s) > Len(base) + 1
                 /\ SubSeq(s, 1, Len(base) + 1) = base \o <<"-">>
                 /\ AllDigits(SubSeq(s, Len(base) + 2, Len(s)))

\* a save() call: the document in memory (doc), the values it was loaded with
\* (orig), the finds the hook issued, whether the hook called next(), what
\* find() rejected with, what save() answered; history: whether another save
\* committed after this one's hook ran (stale)
Idle == [id |-> 0, isNew |-> FALSE, doc |-> NoDoc, orig |-> NoDoc, lookups |-> 0,
         nextCalled |-> FALSE, findErr |-> None, result |-> None,
         stale |-> FALSE]

NoPrev == [id |-> 0, clean |-> FALSE]

InFlight(p) == pc[p] \in {"pre", "commit"}

\* doc = new Store({name, tags}), or doc = await Store.findOne(...) followed by
\* doc.name = name; doc.tags = tags; then doc.save() is called
BeginSave(p, target, name, tags) ==
    /\ pc[p] = "idle"
    /\ target \in (DOMAIN stores) \cup {0}
    /\ target = 0 =>
         Len(stores) + Cardinality({q \in Procs : InFlight(q) /\ sv[q].isNew}) < MaxStores
    /\ LET orig == IF target = 0 THEN NoDoc ELSE stores[target]
       IN  sv' = [sv EXCEPT ![p] = [Idle EXCEPT !.id = target,
                                                !.isNew = (target = 0),
                                                !.orig = orig,
                                                !.doc = [orig EXCEPT !.name = name,
                                                                     !.tags = tags]]]
    /\ pc' = [pc EXCEPT ![p] = "pre"]
    /\ UNCHANGED <<stores, reviews, prev, tagsCall, topCall, query>>

\* lines 63-66: the name was not modified; next() and return
PreSaveSkip(p) ==
    /\ pc[p] = "pre"
    /\ ~IsModifiedName(sv[p])
    /\ sv' = [sv EXCEPT ![p].nextCalled = TRUE]
    /\ pc' = [pc EXCEPT ![p] = "commit"]
    /\ UNCHANGED <<stores, reviews, prev, tagsCall, topCall, query, saves>>

\* lines 67-74 when find() resolves: the slug, the lookup, the suffix, next()
PreSaveFound(p) ==
    /\ pc[p] = "pre"
    /\ IsModifiedName(sv[p])
    /\ LET base == Slugify(sv[p].doc.name)
           storesWithSlug == FindBySlug(base)
       IN  sv' = [sv EXCEPT ![p].doc.slug = SlugFor(base, Cardinality(storesWithSlug)),
                            ![p].lookups = @ + 1,
                            ![p].nextCalled = TRUE]
    /\ pc' = [pc EXCEPT ![p] = "commit"]
    /\ UNCHANGED <<stores, reviews, prev, tagsCall, topCall, query, saves>>

\* what the hook's promise rejects with when the awaited find() rejects with e
Rethrown(e) == e

\* faulty variant: the hook catches the rejection and carries on with the base slug
MutPreSaveFindSwallowed(p, e) ==
    /\ pc[p] = "pre"
    /\ sv[p].isNew \/ sv[p].doc.name # sv[p].orig.name
    /\ sv' = [sv EXCEPT ![p].doc.slug = Slugify(sv[p].doc.name),
                        ![p].lookups = @ + 1,
                        ![p].findErr = e,
                        ![p].nextCalled = TRUE]
    /\ pc' = [pc EXCEPT ![p] = "commit"]
    /\ UNCHANGED <<stores, reviews, prev, tagsCall, topCall, query, saves>>

\* lines 67-70 when find() rejects with e: the await throws, the rest of the
\* hook does not run, and the hook's promise rejects
PreSaveFindFails(p, e) ==
    /\ pc[p] = "pre"
    /\ IsModifiedName(sv[p])
    /\ sv' = [sv EXCEPT ![p].doc.slug = Slugify(sv[p].doc.name),
                        ![p].lookups = @ + 1,
                        ![p].findErr = e,
                        ![p].result = Rethrown(e)]
    /\ pc' = [pc EXCEPT ![p] = "failed"]
    /\ UNCHANGED <<stores, reviews, prev, tagsCall, topCall, query, saves>>

\* the document as the collection holds it after the save: a new document is
\* inserted whole, a loaded one has its modified paths written
Written(s) ==
    IF s.isNew THEN Append(stores, s.doc)
    ELSE [stores EXCEPT ![s.id] =
            [f \in {"name", "slug", "tags"} |->
                IF s.doc[f] # s.orig[f] THEN s.doc[f] ELSE stores[s.id][f]]]

\* faulty variant: slug carries a unique index, and a duplicate is refused
MutCommitUnique(p) ==
    /\ pc[p] = "commit"
    /\ sv[p].nextCalled
    /\ IF \E i \in DOMAIN stores : i # sv[p].id /\ stores[i].slug = sv[p].doc.slug
       THEN /\ pc' = [pc EXCEPT ![p] = "failed"]
            /\ sv' = [sv EXCEPT ![p].result = "duplicate key"]
            /\ UNCHANGED <<stores, prev, saves>>
       ELSE /\ stores' = Written(sv[p])
            /\ sv' = [sv EXCEPT ![p].result = "ok",
                                ![p].id = IF sv[p].isNew THEN Len(stores) + 1 ELSE sv[p].id]
            /\ pc' = [pc EXCEPT ![p] = "done"]
            /\ prev' = prev
    /\ UNCHANGED <<reviews, tagsCall, topCall, query, saves>>

\* the save proceeds once the hook has called next(): the schema declares no
\* unique index on slug, so the write is never refused
Commit(p) ==
    /\ pc[p] = "commit"
    /\ sv[p].nextCalled
    /\ stores' = Written(sv[p])
    /\ sv' = [q \in Procs |->
                IF q = p
                THEN [sv[p] EXCEPT !.result = "ok",
                                   !.id = IF sv[p].isNew THEN Len(stores) + 1 ELSE sv[p].id]
                ELSE IF pc[q] = "commit" THEN [sv[q] EXCEPT !.stale = TRUE]
                ELSE sv[q]]
    /\ pc' = [pc EXCEPT ![p] = "done"]
    /\ prev' = IF IsModifiedName(sv[p])
               THEN [id |-> sv'[p].id,
                     clean |-> ~sv[p].stale /\ CleanFor(Slugify(sv[p].doc.name))]
               ELSE prev
    /\ UNCHANGED <<reviews, tagsCall, topCall, query, saves>>

\* the caller of save() has its answer; the call is over
Settle(p) ==
    /\ pc[p] \in {"done", "failed"}
    /\ pc' = [pc EXCEPT ![p] = "idle"]
    /\ sv' = [sv EXCEPT ![p] = Idle]
    /\ UNCHANGED <<stores, reviews, prev, tagsCall, topCall, query, saves>>

Init ==
    /\ stores = <<>>
    /\ reviews = <<>>
    /\ pc = [p \in Procs |-> "idle"]
    /\ sv = [p \in Procs |-> Idle]
    /\ prev = NoPrev
    /\ tagsCall = <<>>
    /\ topCall = <<>>
    /\ query = <<>>
    /\ saves = 0

\* a save that sets the name, and a save of a loaded Store that sets its tags
\* and leaves its name alone
SaveOfName(p, target, name) ==
    BeginSave(p, target, name, IF target \in DOMAIN stores THEN stores[target].tags ELSE <<>>)

SaveOfTags(p, target, tags) ==
    /\ target \in DOMAIN stores
    /\ BeginSave(p, target, stores[target].name, tags)

\* saves one at a time: a save begins only when no other is in flight
NextSeq ==
    \/ \E target \in 0 .. MaxStores, name \in Names :
          (\A q \in Procs : pc[q] = "idle") /\ SaveOfName("s1", target, name) /\ saves' = saves
    \/ \E target \in 1 .. MaxStores, tags \in TagLists :
          (\A q \in Procs : pc[q] = "idle") /\ SaveOfTags("s1", target, tags) /\ saves' = saves
    \/ \E p \in Procs : PreSaveSkip(p)
    \/ \E p \in Procs : PreSaveFound(p)
    \/ \E p \in Procs, e \in StorageErrors : PreSaveFindFails(p, e)
    \/ \E p \in Procs : Commit(p)
    \/ \E p \in Procs : Settle(p)

SpecSeq == Init /\ [][NextSeq]_vars

\* saves in flight together: any process may begin a save while the other
\* is between its hook and its write
Next ==
    \/ \E p \in Procs, target \in 0 .. MaxStores, name \in Names :
          saves < MaxRaceSaves /\ SaveOfName(p, target, name) /\ saves' = saves + 1
    \/ \E p \in Procs, target \in 1 .. MaxStores, tags \in TagLists :
          saves < MaxRaceSaves /\ SaveOfTags(p, target, tags) /\ saves' = saves + 1
    \/ \E p \in Procs : PreSaveSkip(p)
    \/ \E p \in Procs : PreSaveFound(p)
    \/ \E p \in Procs, e \in StorageErrors : PreSaveFindFails(p, e)
    \/ \E p \in Procs : Commit(p)
    \/ \E p \in Procs : Settle(p)

Spec == Init /\ [][Next]_vars

-----------------------------------------------------------------------------
(* The collections the aggregations and the queries read                   *)

MaxTagStores == 3    \* Stores in the tag report's collection
MaxTags == 2         \* tags of one Store
MaxSeed == 16        \* Stores the ranking's collection may start with
MaxNewReviews == 1   \* Reviews written on top of the seeded ones
MaxReadStores == 2   \* Stores in the collection the queries read
MaxReadReviews == 3  \* Reviews in the collection the queries read

Tags == {"t", "u"}

RECURSIVE SeqsUpTo(_, _)
\* the sequences over S of length at most n
SeqsUpTo(S, n) ==
    IF n = 0 THEN {<<>>}
    ELSE LET shorter == SeqsUpTo(S, n - 1)
         IN  shorter \cup {Append(q, x) : q \in shorter, x \in S}

\* the ratings of the Reviews written on top of the seeded ones
NewRatings == {1, 5}

\* a new Store saved on its own: the hook's slug, then the insert
InsertStore(name, tags) ==
    LET base == Slugify(name)
    IN  stores' = Append(stores, [name |-> name,
                                  slug |-> SlugFor(base, Cardinality(FindBySlug(base))),
                                  tags |-> tags])

\* a Review of Store s is written
InsertReview(s, r) == reviews' = Append(reviews, [store |-> s, rating |-> r])

-----------------------------------------------------------------------------
(* getTagsList                                                             *)

RECURSIVE UnwindFrom(_, _)
\* { $unwind: '$tags' }: one row per element of each document's tags
UnwindFrom(docs, i) ==
    IF i > Len(docs) THEN <<>>
    ELSE [k \in 1 .. Len(docs[i].tags) |-> [store |-> i, tags |-> docs[i].tags[k]]]
         \o UnwindFrom(docs, i + 1)

Unwind(docs) == UnwindFrom(docs, 1)

\* { $sum: 1 } over the rows of one group
SumOne(rows, tag) == Len(SelectSeq(rows, LAMBDA r : r.tags = tag))

\* { $group: { _id: '$tags', count: { $sum: 1 } } }: the groups, as a set (the
\* stage promises no order)
Group(rows) ==
    {[_id |-> rows[k].tags, count |-> SumOne(rows, rows[k].tags)] : k \in DOMAIN rows}

\* the orders a set may come in
Orderings(S) ==
    {q \in [1 .. Cardinality(S) -> S] : \A x \in S : \E k \in DOMAIN q : q[k] = x}

RECURSIVE InsertByCount(_, _)
InsertByCount(sorted, g) ==
    IF sorted = <<>> THEN <<g>>
    ELSE IF Head(sorted).count >= g.count THEN <<Head(sorted)>> \o InsertByCount(Tail(sorted), g)
    ELSE <<g>> \o sorted

RECURSIVE SortByCountDesc(_)
\* { $sort: { count: -1 } }
SortByCountDesc(q) ==
    IF q = <<>> THEN <<>>
    ELSE InsertByCount(SortByCountDesc(SubSeq(q, 1, Len(q) - 1)), q[Len(q)])

\* the results the pipeline may give on the collection
TagsListResults == {SortByCountDesc(q) : q \in Orderings(Group(Unwind(stores)))}

GetTagsList ==
    /\ tagsCall = <<>>
    /\ \E res \in TagsListResults : tagsCall' = <<res>>
    /\ UNCHANGED <<stores, reviews, pc, sv, prev, topCall, query, saves>>

\* the caller has the report
TagsListReturned ==
    /\ tagsCall # <<>>
    /\ tagsCall' = <<>>
    /\ UNCHANGED <<stores, reviews, pc, sv, prev, topCall, query, saves>>

TagStoreCreated(tags) ==
    /\ tagsCall = <<>>
    /\ Len(stores) < MaxTagStores
    /\ InsertStore(<<"a">>, tags)
    /\ UNCHANGED <<reviews, pc, sv, prev, tagsCall, topCall, query, saves>>

NextTags ==
    \/ \E tags \in SeqsUpTo(Tags, MaxTags) : TagStoreCreated(tags)
    \/ GetTagsList
    \/ TagsListReturned

SpecTags == Init /\ [][NextTags]_vars

-----------------------------------------------------------------------------
(* getTopStores                                                            *)

TopLimit == 10

\* the seeded collection: Store i has two Reviews, but every fourth Store has
\* one, every seventh none, and the Stores before those three
SeedRatings(i) ==
    LET a == (i % 5) + 1
        b == ((2 * i) % 5) + 1
    IN  IF i % 7 = 0 THEN <<>>
        ELSE IF i % 4 = 0 THEN <<a>>
        ELSE IF i % 4 = 3 THEN <<a, b, a>>
        ELSE <<a, b>>

RECURSIVE SeedStores(_)
SeedStores(n) ==
    IF n = 0 THEN <<>>
    ELSE Append(SeedStores(n - 1),
                [name |-> <<"a">>, slug |-> SlugFor(<<"a">>, n - 1), tags |-> <<>>])

RECURSIVE SeedReviews(_)
SeedReviews(n) ==
    IF n = 0 THEN <<>>
    ELSE SeedReviews(n - 1)
         \o [k \in 1 .. Len(SeedRatings(n)) |-> [store |-> n, rating |-> SeedRatings(n)[k]]]

RECURSIVE SumRatings(_)
SumRatings(revs) == IF revs = <<>> THEN 0 ELSE Head(revs).rating + SumRatings(Tail(revs))

RECURSIVE Gcd(_, _)
Gcd(a, b) == IF b = 0 THEN a ELSE Gcd(b, a % b)

\* { $avg: '$reviews.rating' } as a fraction in lowest terms
Avg(revs) ==
    LET total == SumRatings(revs)
        g == Gcd(total, Len(revs))
    IN  [num |-> total \div g, den |-> Len(revs) \div g]

\* a >= b for fractions with positive denominators
AtLeast(a, b) == a.num * b.den >= b.num * a.den

\* { $lookup: { from: 'reviews', localField: '_id', foreignField: 'store',
\* as: 'reviews' } }, over the documents in the order `scan` reads them
Lookup(scan) ==
    [k \in 1 .. Len(scan) |->
        [_id |-> scan[k], name |-> stores[scan[k]].name, slug |-> stores[scan[k]].slug,
         reviews |-> SelectSeq(reviews, LAMBDA r : r.store = scan[k])]]

\* faulty variant: the filter keeps the documents that have a first review
MutMatchFirstReview(docs) == SelectSeq(docs, LAMBDA d : Len(d.reviews) >= 1)

\* { $match: { 'reviews.1': { $exists: true } } }: reviews has an element at
\* index 1, its second
MatchSecondReview(docs) == SelectSeq(docs, LAMBDA d : Len(d.reviews) >= 2)

\* the $project stage
Project(docs) ==
    [k \in 1 .. Len(docs) |->
        [_id |-> docs[k]._id, name |-> docs[k].name, slug |-> docs[k].slug,
         reviews |-> docs[k].reviews, averageRating |-> Avg(docs[k].reviews)]]

RECURSIVE InsertByAverage(_, _)
InsertByAverage(sorted, d) ==
    IF sorted = <<>> THEN <<d>>
    ELSE IF AtLeast(Head(sorted).averageRating, d.averageRating)
         THEN <<Head(sorted)>> \o InsertByAverage(Tail(sorted), d)
    ELSE <<d>> \o sorted

RECURSIVE SortByAverageDesc(_)
\* { $sort: { averageRating: -1 } }
SortByAverageDesc(docs) ==
    IF docs = <<>> THEN <<>>
    ELSE InsertByAverage(SortByAverageDesc(SubSeq(docs, 1, Len(docs) - 1)), docs[Len(docs)])

\* { $limit: 10 }
Limit(docs) == SubSeq(docs, 1, IF Len(docs) < TopLimit THEN Len(docs) ELSE TopLimit)

TopStoresPipeline(scan) == Limit(SortByAverageDesc(Project(MatchSecondReview(Lookup(scan)))))

\* the orders the collection is read in: equal averages come out in either
Scans ==
    LET n == Len(stores)
    IN  {[k \in 1 .. n |-> k], [k \in 1 .. n |-> n + 1 - k]}

GetTopStores ==
    /\ topCall = <<>>
    /\ \E scan \in Scans : topCall' = <<TopStoresPipeline(scan)>>
    /\ UNCHANGED <<stores, reviews, pc, sv, prev, tagsCall, query, saves>>

\* the caller has the ranking
TopStoresReturned ==
    /\ topCall # <<>>
    /\ topCall' = <<>>
    /\ UNCHANGED <<stores, reviews, pc, sv, prev, tagsCall, query, saves>>

ReviewWritten(s, r) ==
    /\ topCall = <<>>
    /\ s \in DOMAIN stores
    /\ Len(reviews) < Len(SeedReviews(Len(stores))) + MaxNewReviews
    /\ InsertReview(s, r)
    /\ UNCHANGED <<stores, pc, sv, prev, tagsCall, topCall, query, saves>>

InitTop ==
    /\ \E n \in 0 .. MaxSeed : stores = SeedStores(n) /\ reviews = SeedReviews(n)
    /\ pc = [p \in Procs |-> "idle"]
    /\ sv = [p \in Procs |-> Idle]
    /\ prev = NoPrev
    /\ tagsCall = <<>>
    /\ topCall = <<>>
    /\ query = <<>>
    /\ saves = 0

NextTop ==
    \/ \E s \in 1 .. MaxSeed, r \in NewRatings : ReviewWritten(s, r)
    \/ GetTopStores
    \/ TopStoresReturned

SpecTop == InitTop /\ [][NextTop]_vars

-----------------------------------------------------------------------------
(* find / findOne and the autopopulate hook                                *)

QueryOps == {"find", "findOne"}

\* faulty variant: the hook is registered for find alone
MutHookedFindOnly(op) == op = "find"

\* lines 120-121: the operations autopopulate is registered for
Hooked(op) == op \in {"find", "findOne"}

\* the documents a filter selects: every Store (cond = 0) or the Store with
\* that _id; findOne gives the first of them
Selected(op, cond) ==
    LET ids == SelectSeq([k \in 1 .. Len(stores) |-> k], LAMBDA k : cond = 0 \/ cond = k)
    IN  IF op = "findOne" /\ Len(ids) > 1 THEN SubSeq(ids, 1, 1) ELSE ids

\* the virtual `reviews`: the Reviews whose `store` is the Store's _id
VirtualReviews(id) == SelectSeq(reviews, LAMBDA r : r.store = id)

\* Store.find(cond) or Store.findOne(cond), with the paths the caller asked
\* to have populated
QueryStarted(op, cond, asked) ==
    /\ query = <<>>
    /\ query' = <<[op |-> op, cond |-> cond, asked |-> asked, populate |-> asked,
                   phase |-> "pre", result |-> <<>>]>>
    /\ UNCHANGED <<stores, reviews, pc, sv, prev, tagsCall, topCall, saves>>

\* the operation's pre hooks run: autopopulate does this.populate('reviews')
\* and calls next()
PreQuery ==
    /\ query # <<>>
    /\ query[1].phase = "pre"
    /\ query' = <<[query[1] EXCEPT
                     !.populate = IF Hooked(query[1].op) THEN @ \cup {"reviews"} ELSE @,
                     !.phase = "exec"]>>
    /\ UNCHANGED <<stores, reviews, pc, sv, prev, tagsCall, topCall, saves>>

\* the query runs and its populated paths are filled in
ExecQuery ==
    /\ query # <<>>
    /\ query[1].phase = "exec"
    /\ LET ids == Selected(query[1].op, query[1].cond)
           docs == [k \in 1 .. Len(ids) |->
                      [_id |-> ids[k], name |-> stores[ids[k]].name,
                       populated |-> "reviews" \in query[1].populate,
                       reviews |-> IF "reviews" \in query[1].populate
                                   THEN VirtualReviews(ids[k]) ELSE <<>>]]
       IN  query' = <<[query[1] EXCEPT !.result = docs, !.phase = "done"]>>
    /\ UNCHANGED <<stores, reviews, pc, sv, prev, tagsCall, topCall, saves>>

\* the caller has the documents
QueryReturned ==
    /\ query # <<>>
    /\ query[1].phase = "done"
    /\ query' = <<>>
    /\ UNCHANGED <<stores, reviews, pc, sv, prev, tagsCall, topCall, saves>>

ReadStoreCreated ==
    /\ Len(stores) < MaxReadStores
    /\ InsertStore(<<"a">>, <<>>)
    /\ UNCHANGED <<reviews, pc, sv, prev, tagsCall, topCall, query, saves>>

ReadReviewWritten(s, r) ==
    /\ s \in DOMAIN stores
    /\ Len(reviews) < MaxReadReviews
    /\ InsertReview(s, r)
    /\ UNCHANGED <<stores, pc, sv, prev, tagsCall, topCall, query, saves>>

NextRead ==
    \/ ReadStoreCreated
    \/ \E s \in 1 .. MaxReadStores, r \in NewRatings : ReadReviewWritten(s, r)
    \/ \E op \in QueryOps, cond \in 0 .. MaxReadStores, asked \in {{}, {"reviews"}} :
          QueryStarted(op, cond, asked)
    \/ PreQuery
    \/ ExecQuery
    \/ QueryReturned

SpecRead == Init /\ [][NextRead]_vars

-----------------------------------------------------------------------------
(* Properties of the slug hook                                             *)

NameChanged(s) == s.isNew \/ s.doc.name # s.orig.name

Suffix2(base) == base \o <<"-", "2">>

\* C1: after sequential saves that create Stores or change their names, no
\* two Stores of the collection have the same slug.
C1_NoDuplicateSlugSequential ==
    \A i, j \in DOMAIN stores : i # j => stores[i].slug # stores[j].slug

\* C2: from a collection where no slug is the base or the base with a numeric
\* suffix, a save of N1 and then, once it has committed, a save of another
\* Store named N2 with the same base give the base to the first and base-2
\* to the second.
C2_SecondSaveGetsSuffix2 ==
    [][\A p \in Procs :
          ( /\ pc[p] = "commit" /\ pc'[p] = "done"
            /\ NameChanged(sv[p])
            /\ prev.id # 0 /\ prev.clean
            /\ prev.id # sv'[p].id
            /\ Slugify(stores[prev.id].name) = Slugify(sv[p].doc.name) )
          => LET base == Slugify(sv[p].doc.name)
             IN  /\ stores'[prev.id].slug = base
                 /\ stores'[sv'[p].id].slug = Suffix2(base)
                 /\ stores'[prev.id].slug # stores'[sv'[p].id].slug]_vars

\* the second save of C2's scenario has computed its slug: the first Store,
\* saved on a clean collection, holds the base; the two names differ
C2_Witness ==
    \E p \in Procs :
        /\ pc[p] = "commit"
        /\ NameChanged(sv[p])
        /\ prev.id # 0 /\ prev.clean /\ prev.id # sv[p].id
        /\ stores[prev.id].name # sv[p].doc.name
        /\ Slugify(stores[prev.id].name) = Slugify(sv[p].doc.name)
        /\ stores[prev.id].slug = Slugify(sv[p].doc.name)
        /\ sv[p].doc.slug = Suffix2(Slugify(sv[p].doc.name))

\* C3: a save of an existing Store whose name was not modified leaves the
\* Store's slug as the collection holds it, and its hook issued no find.
C3_UnmodifiedNameKeepsSlug ==
    [][\A p \in Procs :
          ( /\ pc[p] = "commit" /\ pc'[p] = "done"
            /\ ~sv[p].isNew /\ sv[p].doc.name = sv[p].orig.name )
          => /\ stores'[sv[p].id].slug = stores[sv[p].id].slug
             /\ sv[p].lookups = 0
             /\ sv'[p].lookups = 0]_vars

\* a committed save that changed only the tags of a Store whose slug the
\* lookup would have matched
C3_Witness ==
    \E p \in Procs :
        /\ pc[p] = "done"
        /\ ~sv[p].isNew /\ sv[p].doc.name = sv[p].orig.name
        /\ sv[p].doc.tags # sv[p].orig.tags
        /\ stores[sv[p].id].tags = sv[p].doc.tags
        /\ \E i \in DOMAIN stores :
              SlugRegExTest(Slugify(sv[p].doc.name), stores[i].slug)

\* C4: two saves with the same base whose lookups both ran before either
\* committed hold the same slug, and a save whose hook called next() always
\* commits, whatever slugs the collection holds: no error is raised.
C4_RacingSavesShareSlug ==
    /\ [](\A p, q \in Procs :
            ( /\ p # q
              /\ pc[p] = "commit" /\ pc[q] = "commit"
              /\ sv[p].lookups = 1 /\ sv[q].lookups = 1
              /\ ~sv[p].stale /\ ~sv[q].stale
              /\ Slugify(sv[p].doc.name) = Slugify(sv[q].doc.name) )
            => sv[p].doc.slug = sv[q].doc.slug)
    /\ [][\A p \in Procs :
            (pc[p] = "commit" /\ pc'[p] # "commit")
            => /\ pc'[p] = "done"
               /\ sv'[p].result = "ok"
               /\ sv[p].isNew => /\ Len(stores') = Len(stores) + 1
                                 /\ stores'[Len(stores')].slug = sv[p].doc.slug]_vars

\* two new Stores committed by racing saves share one slug, and both saves
\* answered ok
C4_Witness ==
    \E p, q \in Procs :
        /\ p # q
        /\ pc[p] = "done" /\ pc[q] = "done"
        /\ sv[p].isNew /\ sv[q].isNew
        /\ sv[q].stale
        /\ sv[p].result = "ok" /\ sv[q].result = "ok"
        /\ sv[p].id # sv[q].id
        /\ stores[sv[p].id].slug = stores[sv[q].id].slug

\* C5: the slug of every saved Store is non-empty.
C5_SlugNeverEmpty == \A i \in DOMAIN stores : stores[i].slug # <<>>

\* C6: getTagsList() has one entry per distinct tag of any Store, the entry's
\* count is the number of Stores that reference the tag, and the entries come
\* in non-increasing count.
C6_TagCountsAreStoreCounts ==
    tagsCall # <<>> =>
        LET res == tagsCall[1]
            tagsOf(i) == {stores[i].tags[k] : k \in DOMAIN stores[i].tags}
            allTags == UNION {tagsOf(i) : i \in DOMAIN stores}
        IN  /\ {res[k]._id : k \in DOMAIN res} = allTags
            /\ Len(res) = Cardinality(allTags)
            /\ \A k \in DOMAIN res :
                  res[k].count = Cardinality({i \in DOMAIN stores : res[k]._id \in tagsOf(i)})
            /\ \A k \in 1 .. (Len(res) - 1) : res[k].count >= res[k + 1].count

ReviewsOf(i) == SelectSeq(reviews, LAMBDA r : r.store = i)

Qualifying == {i \in DOMAIN stores : Len(ReviewsOf(i)) >= 2}

\* C7: getTopStores() returns at most 10 entries; each is a Store with at
\* least 2 Reviews that reference it; its averageRating is the mean of their
\* ratings; the entries come in non-increasing averageRating; and no omitted
\* Store with at least 2 Reviews has a higher mean than a returned one.
C7_TopStoresRanked ==
    topCall # <<>> =>
        LET res == topCall[1]
            returned == {res[k]._id : k \in DOMAIN res}
            mean(i) == [num |-> SumRatings(ReviewsOf(i)), den |-> Len(ReviewsOf(i))]
        IN  /\ Len(res) <= 10
            /\ \A k \in DOMAIN res :
                  /\ res[k]._id \in Qualifying
                  /\ res[k].reviews = ReviewsOf(res[k]._id)
                  /\ res[k].averageRating.den > 0
                  /\ res[k].averageRating.num * Len(ReviewsOf(res[k]._id))
                        = SumRatings(ReviewsOf(res[k]._id)) * res[k].averageRating.den
            /\ \A k \in 1 .. (Len(res) - 1) :
                  AtLeast(res[k].averageRating, res[k + 1].averageRating)
            /\ \A i \in Qualifying \ returned : \A k \in DOMAIN res :
                  ~(mean(i).num * res[k].averageRating.den
                      > res[k].averageRating.num * mean(i).den)

\* a ranking cut at 10 that leaves out a Store with 2 Reviews, has Stores with
\* 0 and 1 Reviews to pass over, and holds both equal and different averages
C7_Witness ==
    /\ topCall # <<>>
    /\ Len(topCall[1]) = 10
    /\ Cardinality(Qualifying) > 10
    /\ \E i \in DOMAIN stores : Len(ReviewsOf(i)) = 0
    /\ \E i \in DOMAIN stores : Len(ReviewsOf(i)) = 1
    /\ \E k \in 1 .. 9 : topCall[1][k].averageRating = topCall[1][k + 1].averageRating
    /\ topCall[1][1].averageRating # topCall[1][10].averageRating

\* C8: on find and on findOne the populate of `reviews` is registered before
\* the query runs, and every Store the query returns carries exactly the
\* Reviews whose `store` is its _id, asked for or not.
C8_FetchPopulatesReviews ==
    /\ [](query # <<>> /\ query[1].phase \in {"exec", "done"}
            => "reviews" \in query[1].populate)
    /\ [][(query # <<>> /\ query[1].phase = "exec" /\ query' # query)
            => /\ query'[1].phase = "done"
               /\ \A k \in DOMAIN query'[1].result :
                     LET d == query'[1].result[k]
                     IN  /\ d._id \in DOMAIN stores
                         /\ d.populated
                         /\ d.reviews = SelectSeq(reviews, LAMBDA r : r.store = d._id)]_vars

\* a findOne by _id that did not ask for reviews returned its Store with the
\* Store's Reviews, while the collection holds another Store's Review too
C8_Witness ==
    /\ query # <<>>
    /\ query[1].phase = "done"
    /\ query[1].op = "findOne"
    /\ query[1].cond # 0
    /\ query[1].asked = {}
    /\ Len(query[1].result) = 1
    /\ query[1].result[1].reviews # <<>>
    /\ Len(query[1].result[1].reviews) < Len(reviews)

\* C9: when a persisted Store is saved with a modified name, the suffix is
\* computed from the number of OTHER Stores whose slug matches.
C9_LookupExcludesSelf ==
    [][\A p \in Procs :
          ( /\ pc[p] = "pre" /\ pc'[p] = "commit"
            /\ ~sv[p].isNew /\ sv[p].doc.name # sv[p].orig.name )
          => LET base == Slugify(sv[p].doc.name)
                 n == Cardinality({i \in DOMAIN stores \ {sv[p].id} :
                                      SlugRegExTest(base, stores[i].slug)})
             IN  sv'[p].doc.slug = IF n = 0 THEN base ELSE base \o <<"-">> \o NumStr(n + 1)]_vars

====
